---- MODULE Spec2Model ----
(***************************************************************************)
(* Model of src/layout/layouts/ColaLayout/ColaLayout.ts: the ColaLayout    *)
(* orchestrator (activate/deactivate, drag, lock, expansion, group-broken, *)
(* compact mode, executeLayout), the circle seed placement, and the        *)
(* NodeGroup summarization engine (addNode, getGroupEdgesInDirection and   *)
(* its three-bucket cache).                                                *)
(*                                                                         *)
(* Identifiers are integers: nodes are 1, 2, 3, node groups are            *)
(* GroupBase + k (k the value of NodeGroup.IDCounter at construction),     *)
(* real edges are EdgeBase + k.  NoGroup (0) stands for a null             *)
(* belongsToGroup, NoHandle (0) for an undefined layoutAnimation.          *)
(***************************************************************************)
EXTENDS Integers, Sequences, FiniteSets, TLC

\* ------------------------------------------------------------------ bounds
MaxGroups == 2
MaxHandles == 2
MaxPending == 1
MaxMembers == 2
MaxCircleNodes == 20
MaxInstances == 3

\* ------------------------------------------------------- identifier spaces
GroupBase == 100
EdgeBase == 200
NoGroup == 0
NoHandle == 0

VARIABLES
    \* ---- ColaLayout
    isActive,              \* ColaLayout.isActive
    options,               \* ColaLayout.options
    compactMode,           \* ColaLayout.compactMode: undefined, null or a collection
    layoutAnimation,       \* ColaLayout.layoutAnimation: the latest handle made
    running,               \* handles run() and not stop()ped yet
    calls,                 \* engine calls, in order, of the latest handler that made any
    pending,               \* handlers suspended in "await Vue.nextTick()"
    \* ---- areaManipulator / cytoscape canvas
    userPanningEnabled,
    userZoomingEnabled,
    boxSelectionEnabled,
    cyElements,            \* ids of the elements on the canvas
    \* ---- graph
    mounted,               \* NodeCommon.mounted, per node and group
    lockedForLayouts,      \* Node.lockedForLayouts
    groups,                \* groups registered in the graph
    IDCounter,             \* NodeGroup.IDCounter
    belongsToGroup,        \* Node.belongsToGroup
    nodes,                 \* NodeGroup.nodes, the member list
    \* ---- summarization
    nodeVisible,           \* the nodes whose isVisible is true
    visible,               \* the groups whose stored visible flag is true
    edgeVisible,           \* the edges whose isVisible is true
    edgeClasses,           \* Edge.classes
    groupEdgesCache,       \* NodeGroup.groupEdgesCache: group, bucket, identifier -> object
    groupEdgeObjects,      \* the live GroupEdge objects: object -> its fields
    returned,              \* the list the latest aggregation pass returned
    lastPass,              \* per group and bucket, what its latest pass returned
    diagnostics,           \* what the latest addNode handed to console.assert
    \* ---- seed placement
    seedNodes,             \* number of nodes handed to circleLayout
    seedPosition,          \* the anchor handed to circleLayout
    onMountPosition,       \* NodeCommon.onMountPosition set by the latest seeding and
                           \* not yet used by the renderer, in order
    seeded                 \* the nodes or the group these positions were given to

vars == <<isActive, options, compactMode, layoutAnimation, running, calls,
          pending, userPanningEnabled, userZoomingEnabled, boxSelectionEnabled,
          cyElements, mounted, lockedForLayouts, groups,
          IDCounter, belongsToGroup, nodes, nodeVisible, visible, edgeVisible,
          edgeClasses, groupEdgesCache, groupEdgeObjects, returned, lastPass,
          diagnostics, seedNodes, seedPosition, onMountPosition, seeded>>

Canvas == <<userPanningEnabled, userZoomingEnabled, boxSelectionEnabled>>
Graph == <<mounted, lockedForLayouts, groups, IDCounter, belongsToGroup, nodes>>
Orchestrator == <<isActive, options, compactMode, layoutAnimation, running,
                  calls, pending, Canvas, cyElements>>
Visibility == <<nodeVisible, visible, edgeVisible, edgeClasses>>
Aggregation == <<groupEdgesCache, groupEdgeObjects, returned, lastPass>>
Seeding == <<seedNodes, seedPosition, onMountPosition, seeded>>
Summary == <<Visibility, Aggregation, diagnostics>>

\* the nodes of the graph, and the nodes the user locks
Nodes == {1, 2, 3}
LockNodes == {1}

\* the expansions the graph offers: expanding node 1 reveals 2 and 3, and
\* expanding 2 or 3 reveals the other
Expansions ==
    { [parentNode |-> 1, nodes |-> {2, 3}],
      [parentNode |-> 2, nodes |-> {3}],
      [parentNode |-> 3, nodes |-> {2}] }
GroupIds == { GroupBase + k : k \in 0..(MaxGroups - 1) }
EdgeIds == {EdgeBase + 1}
HandleIds == 1..MaxHandles

\* ------------------------------------------------------------- ColaLayout

\* public options = {...}
DefaultOptions ==
    [doLayoutAfterReposition |-> TRUE, expansionOnlyThose |-> FALSE,
     animate |-> TRUE, edgeLength |-> 200, nodeSpacing |-> 10,
     groupExpansion |-> TRUE, expansionGroupLimit |-> 10]

\* {...this.options, ...object}
Spread(a, b) ==
    [k \in (DOMAIN a) \cup (DOMAIN b) |-> IF k \in DOMAIN b THEN b[k] ELSE a[k]]

\* objects handed to restoreFromObject: records saved by saveToObject
RestoreObjects ==
    { DefaultOptions,
      [DefaultOptions EXCEPT !.expansionOnlyThose = TRUE,
                             !.expansionGroupLimit = 2],
      [DefaultOptions EXCEPT !.expansionOnlyThose = TRUE, !.animate = FALSE,
                             !.groupExpansion = FALSE,
                             !.expansionGroupLimit = 2],
      [DefaultOptions EXCEPT !.doLayoutAfterReposition = FALSE] }

\* objects handed to restoreFromObject that carry some of the options, and one
\* that also carries a field that is not an option
OptionObjects ==
    { [doLayoutAfterReposition |-> FALSE], [expansionOnlyThose |-> TRUE],
      [animate |-> FALSE], [animate |-> TRUE], [edgeLength |-> 100],
      [nodeSpacing |-> 20], [groupExpansion |-> FALSE],
      [expansionGroupLimit |-> 2],
      [animate |-> FALSE, handleDisconnected |-> TRUE] }

Undefined == [tag |-> "undefined", elems |-> {}]
Null == [tag |-> "null", elems |-> {}]
Collection(S) == [tag |-> "collection", elems |-> S]

\* !!this.compactMode
IsCompactModeActiveOf(cm) == cm.tag = "collection"
isCompactModeActive == IsCompactModeActiveOf(compactMode)

\* this.compactMode ?? this.areaManipulator.cy.elements()
GetCollectionToAnimate(cm) ==
    IF cm.tag = "collection" THEN cm.elems ELSE cyElements

\* the log after a handler that made the engine calls c
Made(c) == IF c = <<>> THEN calls ELSE c

\* this.layoutAnimation?.stop(): the engine calls it makes
StopCalls(la) == IF la = NoHandle THEN <<>> ELSE << <<"stop", la>> >>

\* executeLayout and the exits that forget to stop the previous handle
StopLayoutForgotten(la, run) == run

\* this.layoutAnimation?.stop(): the runs the engine is left with
StopLayout(la, run) == { r \in run : r.id # la }

RunningIds(run) == { r.id : r \in run }

\* the handle collection.layout() returns: a new object, named by the first
\* identifier that names neither a run of the engine nor the handle that
\* this.layoutAnimation still refers to
FreshHandle(la, run) ==
    CHOOSE h \in HandleIds : h \notin RunningIds(run) \cup {la}

\* executeLayout(collection, fixed), from a state where the handler already
\* made the calls `pre` and left the engine with the runs `run`; cm is
\* this.compactMode.  The options animate, nodeSpacing and edgeLength are
\* passed through to the engine and are not kept in the run.
ExecuteLayout(pre, run, cm, collection, fixed) ==
    LET stopped == StopLayout(layoutAnimation, run)
        h == FreshHandle(layoutAnimation, stopped)
    IN /\ HandleIds \ (RunningIds(stopped) \cup {layoutAnimation}) # {}
       /\ layoutAnimation' = h
       /\ running' = stopped
                        \cup {[id |-> h, collection |-> collection,
                                fixed |-> fixed,
                                compact |-> IsCompactModeActiveOf(cm)]}
       /\ calls' = pre \o StopCalls(layoutAnimation)
                       \o << <<"layout", h>>, <<"run", h>> >>

\* extraLocked that honours the lock flag in compact mode too
ExtraLockedIgnoringCompact(r, n) ==
    n \in r.fixed \/ n \in lockedForLayouts

\* extraLocked of a run r, as the engine evaluates it on node n:
\* fixed.has(node.id()) || (!this.isCompactModeActive() && node.lockedForLayouts)
ExtraLocked(r, n) ==
    n \in r.fixed \/ (~isCompactModeActive /\ n \in lockedForLayouts)

\* a setAreaForCompact that disables the interactions whatever it is given
SetAreaForCompactStuck(isCompact) ==
    /\ userPanningEnabled' = FALSE
    /\ userZoomingEnabled' = FALSE
    /\ boxSelectionEnabled' = FALSE

\* setAreaForCompact(isCompact)
SetAreaForCompact(isCompact) ==
    /\ userPanningEnabled' = ~isCompact
    /\ userZoomingEnabled' = ~isCompact
    /\ boxSelectionEnabled' = ~isCompact

Activate ==
    /\ isActive' = TRUE
    /\ UNCHANGED calls
    /\ UNCHANGED <<options, compactMode, layoutAnimation, running, pending,
                   Canvas, cyElements, Graph, Summary, Seeding>>

\* onCompactMode(null, null); with alsoStop, followed by deactivate()'s stopLayout()
CompactExit(alsoStop) ==
    LET wasCompact == compactMode.tag = "collection"
    IN /\ IF wasCompact THEN SetAreaForCompact(FALSE) ELSE UNCHANGED Canvas
       /\ running' = IF wasCompact \/ alsoStop
                     THEN StopLayout(layoutAnimation, running)
                     ELSE running
       /\ calls' = Made((IF wasCompact THEN StopCalls(layoutAnimation) ELSE <<>>)
                        \o (IF alsoStop THEN StopCalls(layoutAnimation) ELSE <<>>))
       /\ compactMode' = Null

\* a suspended handler, once deactivate() ran during its wait
MarkDeactivated(p) == [p EXCEPT !.deactivated = TRUE]

Deactivate ==
    /\ isActive' = FALSE
    /\ CompactExit(TRUE)
    /\ pending' = [i \in DOMAIN pending |-> MarkDeactivated(pending[i])]
    /\ UNCHANGED <<options, layoutAnimation, cyElements, Graph, Summary, Seeding>>

OnCompactModeExit ==
    /\ CompactExit(FALSE)
    /\ UNCHANGED <<isActive, options, layoutAnimation, pending, cyElements, Graph, Summary, Seeding>>

\* the nodes and edges the user isolates in compact mode
CompactRequests ==
    { [nodes |-> {1}, edges |-> {}],
      [nodes |-> {1}, edges |-> EdgeIds],
      [nodes |-> {1, 2}, edges |-> EdgeIds] }

\* this.compactMode === null, the test that guards the entry's stop and disable
EntryFromNull(cm) == cm.tag = "null"

OnCompactModeEnter(ns, es) ==
    /\ LET first == EntryFromNull(compactMode)
           pre == IF first THEN StopCalls(layoutAnimation) ELSE <<>>
           run == IF first THEN StopLayout(layoutAnimation, running) ELSE running
           cm == Collection(ns \cup es)
       IN /\ IF first THEN SetAreaForCompact(TRUE) ELSE UNCHANGED Canvas
          /\ compactMode' = cm
          /\ ExecuteLayout(pre, run, cm, GetCollectionToAnimate(cm), {})
    /\ UNCHANGED <<isActive, options, pending, cyElements, Graph, Summary, Seeding>>

\* the condition of onDrag with doLayoutAfterReposition guarding the drag end
\* only
DragTriggersOnAnimatedStart(isStartNotEnd, constraintRulesLoaded) ==
    \/ ~isStartNotEnd /\ options.doLayoutAfterReposition
    \/ isStartNotEnd /\ options.animate /\ ~constraintRulesLoaded

\* the condition of onDrag
DragTriggers(isStartNotEnd, constraintRulesLoaded) ==
    options.doLayoutAfterReposition
        /\ (~isStartNotEnd \/ (options.animate /\ ~constraintRulesLoaded))

\* onDrag(isStartNotEnd); constraintRulesLoaded is what the handler reads from
\* areaManipulator.layoutManager.currentLayout
OnDrag(isStartNotEnd, constraintRulesLoaded) ==
    /\ IF DragTriggers(isStartNotEnd, constraintRulesLoaded)
       THEN ExecuteLayout(<<>>, running, compactMode,
                             GetCollectionToAnimate(compactMode), {})
       ELSE /\ UNCHANGED calls
            /\ UNCHANGED <<layoutAnimation, running>>
    /\ UNCHANGED <<isActive, options, compactMode, pending, Canvas, cyElements, Graph, Summary, Seeding>>

\* the user toggles a node's lock, and the manager calls onLockedChanged()
OnLockedChanged(n) ==
    /\ lockedForLayouts' = IF n \in lockedForLayouts
                           THEN lockedForLayouts \ {n}
                           ELSE lockedForLayouts \cup {n}
    /\ ExecuteLayout(<<>>, running, compactMode,
                     GetCollectionToAnimate(compactMode), {})
    /\ UNCHANGED <<isActive, options, compactMode, pending, Canvas, cyElements,
                   mounted, groups, IDCounter, belongsToGroup, nodes,
                   Summary, Seeding>>

Run ==
    /\ ExecuteLayout(<<>>, running, compactMode,
                     GetCollectionToAnimate(compactMode), {})
    /\ UNCHANGED <<isActive, options, compactMode, pending, Canvas, cyElements, Graph, Summary, Seeding>>

RestoreFromObject(object) ==
    /\ options' = Spread(options, object)
    /\ UNCHANGED calls
    /\ UNCHANGED <<isActive, compactMode, layoutAnimation, running, pending,
                   Canvas, cyElements, Graph, Summary, Seeding>>

\* saveToObject(): a clone of this.options
SaveToObject == options

\* ------------------------------------------------------------------ graph

\* the elements of a set as a list, in ascending order of identifier
RECURSIVE SetToList(_)
SetToList(S) ==
    IF S = {} THEN <<>>
    ELSE LET m == CHOOSE x \in S : \A y \in S : x <= y
         IN <<m>> \o SetToList(S \ {m})

Range(s) == { s[i] : i \in DOMAIN s }

\* Node.selfOrGroup: the group of a grouped node, else the node
SelfOrGroup(btg, n) == IF btg[n] # NoGroup THEN btg[n] ELSE n

\* an addNode that takes every node it is given
AddNodeAcceptsAlways(btg, n, overrideExistingGroup) == TRUE

\* the test of NodeGroup.addNode
AddNodeAccepts(btg, n, overrideExistingGroup) ==
    btg[n] = NoGroup \/ overrideExistingGroup

\* NodeGroup.addNode(node, overrideExistingGroup) on group g: belongsToGroup after
AddNodeBelongs(btg, g, n, overrideExistingGroup) ==
    IF AddNodeAccepts(btg, n, overrideExistingGroup)
    THEN [btg EXCEPT ![n] = g] ELSE btg

\* NodeGroup.addNode(node, overrideExistingGroup) on group g: member lists after
AddNodeMembers(btg, nds, g, n, overrideExistingGroup) ==
    IF AddNodeAccepts(btg, n, overrideExistingGroup)
    THEN [nds EXCEPT ![g] = Append(@, n)] ELSE nds

\* "for (let node of notMountedNodes) group.addNode(node)": the state after the loop
RECURSIVE AddAllBelongs(_, _, _)
AddAllBelongs(btg, g, list) ==
    IF list = <<>> THEN btg
    ELSE AddAllBelongs(AddNodeBelongs(btg, g, Head(list), FALSE), g, Tail(list))

RECURSIVE AddAllMembers(_, _, _, _)
AddAllMembers(btg, nds, g, list) ==
    IF list = <<>> THEN nds
    ELSE AddAllMembers(AddNodeBelongs(btg, g, Head(list), FALSE),
                       AddNodeMembers(btg, nds, g, Head(list), FALSE),
                       g, Tail(list))

\* --------------------------------------------------------- circleLayout

\* Math.floor(2 * Math.PI * circNum), with 710/113 for 2 * PI; the two agree
\* for every circNum below 113
TwoPiFloor(circNum) == (710 * circNum) \div 113

Min(a, b) == IF a < b THEN a ELSE b

\* const distance = 100
Distance == 100

\* the anchors tried
Anchors == { <<0, 0>>, <<250, -40>>, <<-30, 75>>, <<1000, 1000>> }

\* a ring that always takes floor(2 * PI * circNum) slots
CircumferenceUncapped(length, i, circNum) == TwoPiFloor(circNum)

\* circumference = Math.min(nodes.length - i, Math.floor(2 * Math.PI * circNum))
Circumference(length, i, circNum) == Min(length - i, TwoPiFloor(circNum))

\* node.onMountPosition, kept as the terms the two coordinates are made of:
\* position + distance * circNum * (cos, sin)(2 * PI * phi / circumference)
Placement(position, circNum, phi, circumference) ==
    [position |-> position, radius |-> Distance * circNum, circNum |-> circNum,
     phi |-> phi, circumference |-> circumference, mounted |-> TRUE]

\* the loop of circleLayout from node number i on
RECURSIVE CircleLoop(_, _, _, _, _, _)
CircleLoop(length, position, i, circNum, phi, circumference) ==
    IF i = length THEN <<>>
    ELSE LET wrap == phi = circumference
             phi1 == IF wrap THEN 0 ELSE phi
             circNum1 == IF wrap THEN circNum + 1 ELSE circNum
             circumference1 == IF wrap
                               THEN Circumference(length, i, circNum + 1)
                               ELSE circumference
         IN <<Placement(position, circNum1, phi1, circumference1)>>
               \o CircleLoop(length, position, i + 1, circNum1, phi1 + 1,
                             circumference1)

\* circleLayout(nodes, position)
CircleLayout ==
    /\ onMountPosition = <<>>
    /\ onMountPosition' = CircleLoop(seedNodes, seedPosition, 0, 0, 0, 0)
    /\ seeded' = [i \in 1..seedNodes |-> i]
    /\ UNCHANGED <<Orchestrator, Graph, Summary, seedNodes, seedPosition>>

\* the caller drops the placed nodes and asks for another placement
NewSeed(length, position) ==
    /\ onMountPosition # <<>>
    /\ seedNodes' = length
    /\ seedPosition' = position
    /\ onMountPosition' = <<>>
    /\ seeded' = <<>>
    /\ UNCHANGED <<Orchestrator, Graph, Summary>>

\* ---------------------------------------------- expansion and group-broken

\* element.position() of an element of the canvas; the elements stay where
\* they are
ElementPosition(e) == <<10 * e, 0 - e>>

\* areaManipulator.getCenterPosition()
CenterPosition == <<0, 0>>

\* group.onMountPosition = [currentPosition.x + 100, currentPosition.y - 1]
GroupPlacement(currentPosition) ==
    Placement(<<currentPosition[1] + 100, currentPosition[2] - 1>>, 0, 0, 1)

\* a test that groups whatever the options say
ShouldGroupAlways(notMounted) == TRUE

\* notMountedNodes.length >= expansionGroupLimit && groupExpansion
ShouldGroup(notMounted) ==
    Cardinality(notMounted) >= options.expansionGroupLimit
        /\ options.groupExpansion

\* onExpansion up to "await Vue.nextTick()"
OnExpansion(parentNode, expNodes) ==
    /\ Len(pending) < MaxPending
    /\ SelfOrGroup(belongsToGroup, parentNode) \in cyElements
    /\ LET notMounted == expNodes \ mounted
           list == SetToList(notMounted)
           currentPosition ==
               ElementPosition(SelfOrGroup(belongsToGroup, parentNode))
       IN IF ShouldGroup(notMounted)
          THEN /\ IDCounter < MaxGroups
               /\ LET group == GroupBase + IDCounter
                  IN /\ IDCounter' = IDCounter + 1
                     /\ groups' = groups \cup {group}
                     /\ belongsToGroup' = AddAllBelongs(belongsToGroup, group, list)
                     /\ nodes' = AddAllMembers(belongsToGroup, nodes, group, list)
                     /\ mounted' = mounted \cup notMounted \cup {group}
                     /\ onMountPosition' = <<GroupPlacement(currentPosition)>>
                     /\ seeded' = <<group>>
          ELSE /\ mounted' = mounted \cup notMounted
               /\ onMountPosition' =
                     CircleLoop(Len(list), currentPosition, 0, 0, 0, 0)
               /\ seeded' = list
               /\ UNCHANGED <<groups, IDCounter, belongsToGroup, nodes>>
    /\ pending' = Append(pending, [kind |-> "expansion", nodes |-> expNodes,
                                    parentNode |-> parentNode,
                                    deactivated |-> FALSE])
    /\ UNCHANGED calls
    /\ UNCHANGED <<isActive, options, compactMode, layoutAnimation, running,
                   Canvas, cyElements, lockedForLayouts, Summary,
                   seedNodes, seedPosition>>

\* the group is dissolved by the graph, which then calls onGroupBroken(nodes,
\* group); the handler up to "await Vue.nextTick()"
OnGroupBroken(group) ==
    /\ Len(pending) < MaxPending
    /\ group \in groups
    /\ nodes[group] # <<>>
    /\ belongsToGroup' = [n \in Nodes |-> IF belongsToGroup[n] = group
                                          THEN NoGroup ELSE belongsToGroup[n]]
    /\ nodes' = [nodes EXCEPT ![group] = <<>>]
    /\ groups' = groups \ {group}
    /\ mounted' = (mounted \ {group}) \cup Range(nodes[group])
    /\ onMountPosition' =
          CircleLoop(Len(nodes[group]),
                     IF group \in cyElements THEN ElementPosition(group)
                     ELSE CenterPosition, 0, 0, 0, 0)
    /\ seeded' = nodes[group]
    /\ pending' = Append(pending, [kind |-> "groupBroken", nodes |-> {},
                                    parentNode |-> 0, deactivated |-> FALSE])
    /\ UNCHANGED calls
    /\ UNCHANGED <<isActive, options, compactMode, layoutAnimation, running,
                   Canvas, cyElements, lockedForLayouts,
                   IDCounter, Summary, seedNodes, seedPosition>>

\* "if (!this.isActive) return" after the wait
ResumeAborts(p) == ~isActive

\* explicitlyFixed that forgets to exclude the parent node
ExplicitlyFixedWithParent(p) ==
    IF options.expansionOnlyThose
    THEN (cyElements \ EdgeIds)
            \ { SelfOrGroup(belongsToGroup, n) : n \in p.nodes }
    ELSE {}

\* explicitlyFixed of onExpansion
ExplicitlyFixed(p) ==
    IF options.expansionOnlyThose
    THEN ((cyElements \ EdgeIds)
            \ { SelfOrGroup(belongsToGroup, n) : n \in p.nodes })
            \ { SelfOrGroup(belongsToGroup, p.parentNode) }
    ELSE {}

\* the rest of onExpansion / onGroupBroken, after the render tick
Resume ==
    /\ pending # <<>>
    /\ LET p == Head(pending)
       IN IF ResumeAborts(p)
          THEN /\ UNCHANGED calls
               /\ UNCHANGED <<layoutAnimation, running>>
          ELSE ExecuteLayout(<<>>, running, compactMode, cyElements,
                                IF p.kind = "expansion" THEN ExplicitlyFixed(p)
                                ELSE {})
    /\ pending' = Tail(pending)
    /\ UNCHANGED <<isActive, options, compactMode, Canvas, cyElements, Graph, Summary, Seeding>>

\* ------------------------------------------------- renderer and environment

\* what the renderer shows: the edge elements, the mounted nodes that stand
\* for themselves and the mounted groups of the graph
Shown ==
    EdgeIds \cup { n \in Nodes \cap mounted : belongsToGroup[n] = NoGroup }
            \cup (groups \cap mounted)

\* one rendering tick: the canvas catches up with the graph, and the
\* renderer mounts the new elements at their onMountPosition
RenderTick ==
    /\ cyElements # Shown
    /\ cyElements' = Shown
    /\ onMountPosition' = <<>>
    /\ seeded' = <<>>
    /\ UNCHANGED <<isActive, options, compactMode, layoutAnimation, running,
                   calls, pending, Canvas, Graph, Summary, seedNodes,
                   seedPosition>>

\* ------------------------------------------------------------ NodeGroup

\* the groups and the real edges of the summarized graph: two edges of type
\* "t" into node 3 and one edge of type "u" from node 1 to node 2
SummaryGroups == {GroupBase, GroupBase + 1}
Edges ==
    { [id |-> EdgeBase + 1, source |-> 1, target |-> 3, type |-> "t"],
      [id |-> EdgeBase + 2, source |-> 2, target |-> 3, type |-> "t"],
      [id |-> EdgeBase + 3, source |-> 1, target |-> 2, type |-> "u"] }
EdgeOf(id) == CHOOSE e \in Edges : e.id = id

\* the class lists an edge may carry, and the edges whose classes, the nodes
\* whose visibility and the groups whose flag the user changes; the edges
\* stay visible
ClassSets == { {"a", "b"}, {"b", "c"} }
ClassEdges == {EdgeBase + 1}
HideNodes == {2}
HideGroups == {GroupBase + 1}
InstanceIds == 1..MaxInstances

\* the passes the renderer asks for: visibleGroupEdges makes the incoming and
\* the outgoing pass, restOfVisibleGroupEdges the pass over grouped sources
Passes ==
    { [group |-> GroupBase, outNotIn |-> TRUE, exclusivelyTargetIsGroup |-> FALSE],
      [group |-> GroupBase, outNotIn |-> FALSE, exclusivelyTargetIsGroup |-> FALSE],
      [group |-> GroupBase, outNotIn |-> FALSE, exclusivelyTargetIsGroup |-> TRUE],
      [group |-> GroupBase + 1, outNotIn |-> FALSE, exclusivelyTargetIsGroup |-> FALSE] }

\* the addNode calls the graph makes
Additions ==
    { [group |-> GroupBase, node |-> 1, override |-> FALSE],
      [group |-> GroupBase, node |-> 2, override |-> FALSE],
      [group |-> GroupBase + 1, node |-> 2, override |-> FALSE],
      [group |-> GroupBase + 1, node |-> 2, override |-> TRUE] }
Buckets == {"out", "in", "in_group"}

NoDiagnostic == [node |-> 0, into |-> NoGroup, existing |-> NoGroup]
NoReturn == [group |-> NoGroup, bucket |-> "none", edges |-> <<>>,
             fromCache |-> {}]

\* console.assert(!node.belongsToGroup || overrideExistingGroup, ...): what it prints
AssertOutput(btg, g, n, overrideExistingGroup) ==
    IF btg[n] = NoGroup \/ overrideExistingGroup
    THEN NoDiagnostic
    ELSE [node |-> n, into |-> g, existing |-> btg[n]]

\* group.addNode(node, overrideExistingGroup), called by the graph
AddNode(g, n, overrideExistingGroup) ==
    /\ AddNodeAccepts(belongsToGroup, n, overrideExistingGroup)
          => Len(nodes[g]) < MaxMembers
    /\ diagnostics' = AssertOutput(belongsToGroup, g, n, overrideExistingGroup)
    /\ belongsToGroup' = AddNodeBelongs(belongsToGroup, g, n, overrideExistingGroup)
    /\ nodes' = AddNodeMembers(belongsToGroup, nodes, g, n, overrideExistingGroup)
    /\ returned' = NoReturn
    /\ UNCHANGED <<Orchestrator, mounted, lockedForLayouts, groups, IDCounter,
                   Visibility, groupEdgesCache, groupEdgeObjects, lastPass,
                   Seeding>>

\* Node.edges: the edges that leave or enter the node, in order of identifier
NodeEdges(n) ==
    SetToList({ e.id : e \in { x \in Edges : x.source = n \/ x.target = n } })

\* isVisible of a group that ignores the stored flag
GroupIsVisibleByMembers(g) ==
    \E i \in DOMAIN nodes[g] : nodes[g][i] \in nodeVisible

\* NodeGroup.isVisible
GroupIsVisible(g) ==
    IF g \notin visible THEN FALSE
    ELSE \E i \in DOMAIN nodes[g] : nodes[g][i] \in nodeVisible

\* isVisible of a node or a group
IsVisible(x) == IF x \in GroupIds THEN GroupIsVisible(x) ELSE x \in nodeVisible

\* GroupEdge.identifier, made of the source, the target and the type
Identifier(source, target, type) == <<source, target, type>>

\* bucket of a pass: out, in_group or in
BucketOf(outNotIn, exclusivelyTargetIsGroup) ==
    IF outNotIn THEN "out"
    ELSE IF exclusivelyTargetIsGroup THEN "in_group" ELSE "in"

\* targetNode of an edge in a pass of group g
TargetNode(e, outNotIn) ==
    IF outNotIn
    THEN IF belongsToGroup[e.target] # NoGroup
         THEN belongsToGroup[e.target] ELSE e.target
    ELSE e.source

\* the "continue" tests of the inner loop
Skips(g, e, outNotIn, exclusivelyTargetIsGroup) ==
    LET targetNode == TargetNode(e, outNotIn)
    IN \/ /\ outNotIn
          /\ targetNode \in GroupIds
          /\ (e.target \notin nodeVisible \/ targetNode = g)
       \/ /\ ~outNotIn
          /\ \/ (belongsToGroup[e.source] # NoGroup /\ ~exclusivelyTargetIsGroup)
             \/ (belongsToGroup[e.source] = NoGroup /\ exclusivelyTargetIsGroup)
       \/ e.id \notin edgeVisible
       \/ ~IsVisible(targetNode)

\* the edges the two loops reach and do not skip, in the order they are reached
RECURSIVE Reached(_, _, _, _)
Reached(g, list, outNotIn, exclusivelyTargetIsGroup) ==
    IF list = <<>> THEN <<>>
    ELSE LET sourceNode == Head(list)
             mine == IF sourceNode \in nodeVisible
                     THEN SelectSeq(NodeEdges(sourceNode),
                            LAMBDA id : ~Skips(g, EdgeOf(id), outNotIn,
                                               exclusivelyTargetIsGroup))
                     ELSE <<>>
         IN mine \o Reached(g, Tail(list), outNotIn, exclusivelyTargetIsGroup)

\* targetTypeGroupEdge after one more edge: the entries are kept in the order
\* the final loops read them, by target in order of first insertion and then
\* by type in order of insertion; the classes of a new entry are those of the
\* edge, and every edge removes from its entry the classes it does not have
Catalogued(map, e, outNotIn) ==
    LET targetNode == TargetNode(e, outNotIn)
        same == { i \in DOMAIN map : map[i].target = targetNode }
        hit == { i \in same : map[i].type = e.type }
        entry == [target |-> targetNode, type |-> e.type,
                  classes |-> edgeClasses[e.id]]
    IN IF hit # {}
       THEN LET i == CHOOSE x \in hit : TRUE
            IN [map EXCEPT ![i].classes = @ \cap edgeClasses[e.id]]
       ELSE IF same # {}
       THEN LET last == CHOOSE x \in same : \A y \in same : y <= x
            IN SubSeq(map, 1, last) \o <<entry>> \o SubSeq(map, last + 1, Len(map))
       ELSE Append(map, entry)

RECURSIVE TargetTypeGroupEdge(_, _, _)
TargetTypeGroupEdge(map, reached, outNotIn) ==
    IF reached = <<>> THEN map
    ELSE TargetTypeGroupEdge(Catalogued(map, EdgeOf(Head(reached)), outNotIn),
                             Tail(reached), outNotIn)

\* new GroupEdge(this, targetNode, type) or new GroupEdge(targetNode, this, type),
\* with the classes it is given when the entries are read
NewGroupEdge(g, entry, outNotIn) ==
    [source |-> IF outNotIn THEN g ELSE entry.target,
     target |-> IF outNotIn THEN entry.target ELSE g,
     type |-> entry.type,
     classes |-> entry.classes]

RECURSIVE NewGroupEdges(_, _, _)
NewGroupEdges(g, map, outNotIn) ==
    IF map = <<>> THEN <<>>
    ELSE <<NewGroupEdge(g, Head(map), outNotIn)>>
            \o NewGroupEdges(g, Tail(map), outNotIn)

\* GroupEdge.identifier of an object
ObjectIdentifier(o) == Identifier(o.source, o.target, o.type)

\* a cache that is never consulted
CacheHasNever(cache, o) == FALSE

\* cache.hasOwnProperty(edges[i].identifier)
CacheHas(cache, o) == ObjectIdentifier(o) \in DOMAIN cache

\* a GroupEdge object is named by the bucket that made it and a number; the
\* least name of the bucket that names no live object
LeastFree(free) == CHOOSE x \in free : \A y \in free : x[3] <= y[3]

\* "Replace by cache": the object returned at each position, the cached one
\* when the cache has the identifier, else the new one
RECURSIVE Reconciled(_, _, _)
Reconciled(cache, fresh, free) ==
    IF fresh = <<>> THEN <<>>
    ELSE IF CacheHas(cache, Head(fresh))
    THEN <<cache[ObjectIdentifier(Head(fresh))]>>
            \o Reconciled(cache, Tail(fresh), free)
    ELSE <<LeastFree(free)>>
            \o Reconciled(cache, Tail(fresh), free \ {LeastFree(free)})

\* the objects some bucket, some earlier result or the returned list refers to
Live(cache, last, ret) ==
    UNION { { cache[g][b][k] : k \in DOMAIN cache[g][b] } \cup Range(last[g][b]) :
            g \in GroupIds, b \in Buckets }
      \cup Range(ret.edges)

\* the new GroupEdge objects of a pass of group g, one for each entry
Fresh(g, outNotIn, exclusivelyTargetIsGroup) ==
    LET reached == Reached(g, nodes[g], outNotIn, exclusivelyTargetIsGroup)
    IN NewGroupEdges(g, TargetTypeGroupEdge(<<>>, reached, outNotIn), outNotIn)

\* visibleGroupEdges of group g, as the new objects of its two passes: the
\* objects returned have the identifiers of these
VisibleGroupEdges(g) == Fresh(g, FALSE, FALSE) \o Fresh(g, TRUE, FALSE)

\* a cache that is emptied by every pass
NewCacheEmptied(fresh, edges) == <<>>

\* newCache[edges[i].identifier] = edges[i]
NewCache(fresh, edges) ==
    [k \in { ObjectIdentifier(fresh[i]) : i \in DOMAIN fresh } |->
        edges[CHOOSE i \in DOMAIN fresh : ObjectIdentifier(fresh[i]) = k]]

\* getGroupEdgesInDirection(outNotIn, exclusivelyTargetIsGroup) of group g
GetGroupEdgesInDirection(g, outNotIn, exclusivelyTargetIsGroup) ==
    LET bucket == BucketOf(outNotIn, exclusivelyTargetIsGroup)
        cache == groupEdgesCache[g][bucket]
        free == { <<g, bucket, k>> : k \in InstanceIds } \ DOMAIN groupEdgeObjects
    IN /\ \E fresh \in {Fresh(g, outNotIn, exclusivelyTargetIsGroup)} :
          \E made \in {{ i \in DOMAIN fresh : ~CacheHas(cache, fresh[i]) }} :
             /\ Cardinality(made) <= Cardinality(free)
             /\ \E edges \in {Reconciled(cache, fresh, free)} :
                \E ret \in {[group |-> g, bucket |-> bucket, edges |-> edges,
                             fromCache |-> DOMAIN fresh \ made]} :
                \E cacheAfter \in {[groupEdgesCache EXCEPT
                                       ![g][bucket] = NewCache(fresh, edges)]} :
                \E lastAfter \in {[lastPass EXCEPT ![g][bucket] = edges]} :
                   /\ groupEdgesCache' = cacheAfter
                   /\ lastPass' = lastAfter
                   /\ returned' = ret
                   /\ groupEdgeObjects' =
                         [o \in Live(cacheAfter, lastAfter, ret) |->
                            IF o \in DOMAIN groupEdgeObjects
                            THEN groupEdgeObjects[o]
                            ELSE fresh[CHOOSE i \in made : edges[i] = o]]
       /\ diagnostics' = NoDiagnostic
       /\ UNCHANGED <<Orchestrator, Graph, Visibility, Seeding>>

\* the graph changes the classes of an edge
SetEdgeClasses(e, classes) ==
    /\ edgeClasses[e] # classes
    /\ edgeClasses' = [edgeClasses EXCEPT ![e] = classes]
    /\ returned' = NoReturn
    /\ UNCHANGED <<Orchestrator, Graph, nodeVisible, visible, edgeVisible,
                   groupEdgesCache, groupEdgeObjects, lastPass,
                   Seeding>>
    /\ diagnostics' = NoDiagnostic

\* the user hides or shows a node or a group
Toggle(S, x) == IF x \in S THEN S \ {x} ELSE S \cup {x}

SetNodeVisible(n) ==
    /\ nodeVisible' = Toggle(nodeVisible, n)
    /\ returned' = NoReturn
    /\ UNCHANGED <<Orchestrator, Graph, visible, edgeVisible, edgeClasses,
                   groupEdgesCache, groupEdgeObjects, lastPass,
                   Seeding>>
    /\ diagnostics' = NoDiagnostic

SetGroupVisible(g) ==
    /\ visible' = Toggle(visible, g)
    /\ returned' = NoReturn
    /\ diagnostics' = NoDiagnostic
    /\ UNCHANGED <<Orchestrator, Graph, nodeVisible, edgeVisible, edgeClasses,
                   groupEdgesCache, groupEdgeObjects, lastPass, Seeding>>

OrchestratorInit ==
    /\ isActive = FALSE
    /\ options = DefaultOptions
    /\ compactMode = Undefined
    /\ layoutAnimation = NoHandle
    /\ running = {}
    /\ calls = <<>>
    /\ pending = <<>>
    /\ userPanningEnabled = TRUE
    /\ userZoomingEnabled = TRUE
    /\ boxSelectionEnabled = TRUE

\* a graph of three nodes, of which node 1 is drawn
GraphInit ==
    /\ cyElements = {1} \cup EdgeIds
    /\ mounted = {1}
    /\ lockedForLayouts = {}
    /\ groups = {}
    /\ IDCounter = 0
    /\ belongsToGroup = [n \in Nodes |-> NoGroup]
    /\ nodes = [g \in GroupIds |-> <<>>]

SummaryInit ==
    /\ nodeVisible = Nodes
    /\ visible = GroupIds
    /\ edgeVisible = { e.id : e \in Edges }
    /\ edgeClasses = [e \in { x.id : x \in Edges } |->
                        IF e = EdgeBase + 2 THEN {"b", "c"} ELSE {"a", "b"}]
    /\ groupEdgesCache = [g \in GroupIds |-> [b \in Buckets |-> <<>>]]
    /\ groupEdgeObjects = <<>>
    /\ returned = NoReturn
    /\ lastPass = [g \in GroupIds |-> [b \in Buckets |-> <<>>]]
    /\ diagnostics = NoDiagnostic

SeedingInit ==
    /\ seedNodes = 0
    /\ seedPosition = <<0, 0>>
    /\ onMountPosition = <<>>
    /\ seeded = <<>>

Init == OrchestratorInit /\ GraphInit /\ SummaryInit /\ SeedingInit

Next ==
    \/ Activate
    \/ Deactivate
    \/ OnCompactModeExit
    \/ \E c \in CompactRequests :
          /\ c.nodes \cup c.edges \subseteq cyElements
          /\ OnCompactModeEnter(c.nodes, c.edges)
    \/ \E isStartNotEnd \in BOOLEAN, constraintRulesLoaded \in BOOLEAN :
          OnDrag(isStartNotEnd, constraintRulesLoaded)
    \/ \E n \in LockNodes \cap cyElements : OnLockedChanged(n)
    \/ Run
    \/ \E o \in RestoreObjects : RestoreFromObject(o)
    \/ \E expansion \in Expansions :
          OnExpansion(expansion.parentNode, expansion.nodes)
    \/ \E g \in GroupIds : OnGroupBroken(g)
    \/ Resume
    \/ RenderTick

Spec == Init /\ [][Next]_vars

\* the summarization engine: two empty groups made by createGroup(), all
\* nodes drawn
InitGroups ==
    /\ OrchestratorInit
    /\ cyElements = EdgeIds \cup Nodes \cup SummaryGroups
    /\ mounted = Nodes \cup SummaryGroups
    /\ lockedForLayouts = {}
    /\ groups = SummaryGroups
    /\ IDCounter = 2
    /\ belongsToGroup = [n \in Nodes |-> NoGroup]
    /\ nodes = [g \in GroupIds |-> <<>>]
    /\ SummaryInit
    /\ SeedingInit

NextGroups ==
    \/ \E a \in Additions : AddNode(a.group, a.node, a.override)
    \/ \E p \in Passes :
          GetGroupEdgesInDirection(p.group, p.outNotIn, p.exclusivelyTargetIsGroup)
    \/ \E e \in ClassEdges, classes \in ClassSets : SetEdgeClasses(e, classes)
    \/ \E n \in HideNodes : SetNodeVisible(n)
    \/ \E g \in HideGroups : SetGroupVisible(g)

SpecGroups == InitGroups /\ [][NextGroups]_vars

\* the seed placement: any number of nodes around any of the anchors
InitCircle ==
    /\ OrchestratorInit
    /\ GraphInit
    /\ SummaryInit
    /\ seedNodes \in 0..MaxCircleNodes
    /\ seedPosition \in Anchors
    /\ onMountPosition = <<>>
    /\ seeded = <<>>

NextCircle ==
    \/ CircleLayout
    \/ \E length \in 0..MaxCircleNodes, position \in Anchors :
          NewSeed(length, position)

SpecCircle == InitCircle /\ [][NextCircle]_vars

\* the options: records with some of the fields are restored in any order
InitOptions == Init

NextOptions == \E o \in OptionObjects : RestoreFromObject(o)

SpecOptions == InitOptions /\ [][NextOptions]_vars

\* ------------------------------------------------------------------ claims

\* a step of Resume: only the resumption of a suspended handler shortens pending
ResumeStep == pending # <<>> /\ pending' = Tail(pending)

\* a step in which executeLayout made and ran a new handle
LayoutStep == layoutAnimation' # layoutAnimation

\* the run of the handle this.layoutAnimation refers to, after the step
NewRun == CHOOSE r \in running' : r.id = layoutAnimation'

\* position of the engine call c in the log of the step, 0 when absent
CallIndex(log, c) ==
    IF \E i \in DOMAIN log : log[i] = c
    THEN CHOOSE i \in DOMAIN log : log[i] = c /\ \A j \in 1..(i - 1) : log[j] # c
    ELSE 0

\* C1 (state part): at most one handle is started and not yet stopped, and it
\* is the one this.layoutAnimation refers to.
SingleHandle ==
    /\ Cardinality(running) <= 1
    /\ RunningIds(running) \subseteq {layoutAnimation}

\* C1 (step part): whenever a new run is started while a previous handle
\* exists, stop() of the previous handle is called before the new handle is
\* created and run.
StopBeforeNew ==
    LayoutStep =>
        /\ RunningIds(running') = {layoutAnimation'}
        /\ CallIndex(calls', <<"layout", layoutAnimation'>>)
              < CallIndex(calls', <<"run", layoutAnimation'>>)
        /\ layoutAnimation # NoHandle =>
              /\ CallIndex(calls', <<"stop", layoutAnimation>>) > 0
              /\ CallIndex(calls', <<"stop", layoutAnimation>>)
                    < CallIndex(calls', <<"layout", layoutAnimation'>>)

\* C1: after any sequence of events at most one layout-engine handle is
\* started and not yet stopped, and a new run is started only after the
\* previous handle's stop() was called.
C1_SingleHandle == [](SingleHandle) /\ [][StopBeforeNew]_vars

\* C1 witness: a second run was started while the first was running, and one
\* handle is running.
C1_Witness ==
    /\ Len(calls) = 3
    /\ calls[1][1] = "stop"
    /\ Cardinality(running) = 1
    /\ layoutAnimation = 2

\* C2: a handler of onExpansion or onGroupBroken during whose wait
\* deactivate() was called starts no layout run when it resumes, whatever
\* happened meanwhile (a later activate() included).
C2_StaleAbort ==
    [][(ResumeStep /\ Head(pending).deactivated)
          => (layoutAnimation' = layoutAnimation /\ running' = running)]_vars

\* C3: after B.addNode(n, true) for a member n of another group A, n is
\* exclusively in B; so in every state a node appears in the member list of at
\* most one group, and that group is the node's belongsToGroup.
C3_MembershipExclusivity ==
    \A n \in Nodes : \A g \in GroupIds :
        n \in Range(nodes[g]) => belongsToGroup[n] = g

\* the real edges a returned GroupEdge of a pass of group g summarizes: those
\* the pass reached with the counterpart and the type of the GroupEdge
Summarized(g, bucket, o) ==
    LET outNotIn == bucket = "out"
        exclusivelyTargetIsGroup == bucket = "in_group"
    IN { e \in Edges :
           /\ \E n \in Range(nodes[g]) :
                 n \in nodeVisible /\ (e.source = n \/ e.target = n)
           /\ ~Skips(g, e, outNotIn, exclusivelyTargetIsGroup)
           /\ TargetNode(e, outNotIn) = (IF outNotIn THEN o.target ELSE o.source)
           /\ e.type = o.type }

AllClasses == UNION ClassSets

\* C4: after every pass, the classes of each returned GroupEdge are exactly
\* the classes common to all the real edges it summarizes in that pass.
C4_ClassIntersection ==
    returned.group # NoGroup =>
        \A i \in DOMAIN returned.edges :
            LET o == groupEdgeObjects[returned.edges[i]]
            IN o.classes =
                 { c \in AllClasses :
                     \A e \in Summarized(returned.group, returned.bucket, o) :
                         c \in edgeClasses[e.id] }

\* C5: a pass returns, for every identifier that the previous pass of the same
\* group and direction returned too, the very object that pass returned; so
\* two passes with no change in between return the same objects.
C5_IdentityStability ==
    [][returned'.group # NoGroup =>
          LET prev == lastPass[returned'.group][returned'.bucket]
              cur == returned'.edges
          IN \A i \in DOMAIN cur : \A j \in DOMAIN prev :
                ObjectIdentifier(groupEdgeObjects'[cur[i]])
                      = ObjectIdentifier(groupEdgeObjects[prev[j]])
                   => cur[i] = prev[j]]_vars

\* C5 witness: a pass returned two objects, one taken from the cache and one
\* newly made
C5_Witness ==
    /\ returned.group # NoGroup
    /\ returned.fromCache # {}
    /\ DOMAIN returned.edges \ returned.fromCache # {}

\* the placement the claim gives node number i (counted from 0) of length
\* nodes when one node is put on a ring 0 at the anchor
RECURSIVE RingStart(_)
RingStart(k) == IF k <= 1 THEN 0 ELSE RingStart(k - 1) + TwoPiFloor(k - 1)

RingOf(i) == CHOOSE k \in 1..(i + 1) : RingStart(k) <= i /\ i < RingStart(k + 1)

RingPlacement(length, position, i) ==
    LET k == RingOf(i)
    IN Placement(position, k, i - RingStart(k),
                 Min(length - RingStart(k), TwoPiFloor(k)))

AnchorFirstPlacement(length, position, i) ==
    IF i = 0 THEN Placement(position, 0, 0, 1)
    ELSE LET k == RingOf(i - 1)
         IN Placement(position, k, (i - 1) - RingStart(k),
                      Min((length - 1) - RingStart(k), TwoPiFloor(k)))

\* C6 as stated: node 0 is at the anchor on a ring 0 of radius 0, and ring
\* k >= 1 takes min(remaining, floor(2*pi*k)) of the nodes after it.
C6_AnchorFirst ==
    \A i \in DOMAIN onMountPosition :
        onMountPosition[i] = AnchorFirstPlacement(seedNodes, seedPosition, i - 1)

\* C6, amended: no node is at the anchor; node 0 opens ring 1, and ring k >= 1
\* takes min(remaining, floor(2*pi*k)) of the nodes at radius k * 100, the
\* j-th of the n nodes of a ring at angle 2*pi*j/n; of 7 nodes, nodes 0..5
\* are the six nodes of ring 1 and node 6 is alone on ring 2.
C6_SeedRings ==
    /\ onMountPosition # <<>> => Len(onMountPosition) = seedNodes
    /\ \A i \in DOMAIN onMountPosition :
          onMountPosition[i] = RingPlacement(seedNodes, seedPosition, i - 1)
    /\ Len(onMountPosition) = 7 =>
          /\ \A i \in 1..6 :
                /\ onMountPosition[i].radius = 100
                /\ onMountPosition[i].phi = i - 1
                /\ onMountPosition[i].circumference = 6
          /\ onMountPosition[7].radius = 200
          /\ onMountPosition[7].phi = 0
          /\ onMountPosition[7].circumference = 1

\* C6 witness: seven nodes were placed around (0,0), the last of them on the
\* second ring
C6_Witness ==
    /\ seedNodes = 7
    /\ seedPosition = <<0, 0>>
    /\ Len(onMountPosition) = 7
    /\ onMountPosition[7].circNum = 2

\* C7: an expansion that resumes with the orchestrator active runs the layout
\* over all elements of the canvas; with expansionOnlyThose its fixed set is
\* the ids of the nodes on the canvas, minus the self-or-group id of every
\* node of the expansion, minus the self-or-group id of the anchor; without
\* expansionOnlyThose the fixed set is empty.
C7_FixedSetOnExpansion ==
    [][(ResumeStep /\ isActive /\ Head(pending).kind = "expansion") =>
          LET p == Head(pending)
              present == cyElements \ EdgeIds
              touched == { IF belongsToGroup[n] # NoGroup THEN belongsToGroup[n]
                           ELSE n : n \in p.nodes \cup {p.parentNode} }
          IN /\ LayoutStep
             /\ NewRun.collection = cyElements
             /\ options.expansionOnlyThose => NewRun.fixed = present \ touched
             /\ ~options.expansionOnlyThose => NewRun.fixed = {}]_vars

\* C7 witness: the run made by an expansion of a grouped node pins node 1,
\* which is on the canvas, and leaves the group, also on the canvas, free.
C7_Witness ==
    \E r \in running :
        /\ r.id = layoutAnimation
        /\ r.fixed = {1}
        /\ GroupBase \in r.collection
        /\ options.expansionOnlyThose

\* C8: in every run, a node is held fixed iff its id is in the run's fixed set
\* or (the run was made while compact mode was not active and the node's lock
\* flag is set); so a locked node outside the fixed set is not held fixed in a
\* run made in compact mode and is held fixed in a run made outside it.
C8_FixedPredicate ==
    \A r \in running : \A n \in Nodes \cup GroupIds :
        /\ ExtraLocked(r, n)
              <=> (n \in r.fixed \/ (~r.compact /\ n \in lockedForLayouts))
        /\ (n \in lockedForLayouts /\ n \notin r.fixed)
              => (ExtraLocked(r, n) <=> ~r.compact)

\* C8 witness: a run made in compact mode is running and a locked node outside
\* its fixed set is not held fixed.
C8_Witness ==
    \E r \in running : \E n \in lockedForLayouts :
        r.compact /\ n \notin r.fixed /\ ~ExtraLocked(r, n)

\* C9: pan, zoom and box selection are disabled exactly when compact mode is
\* active.
C9_CompactIsolation ==
    /\ userPanningEnabled = ~isCompactModeActive
    /\ userZoomingEnabled = ~isCompactModeActive
    /\ boxSelectionEnabled = ~isCompactModeActive

\* a call addNode(n) without override for a node that belongs to a group
RejectedCall(a) ==
    /\ ~a.override
    /\ belongsToGroup[a.node] # NoGroup
    /\ AddNode(a.group, a.node, a.override)

C11_DeactivatePostState ==
    [][Deactivate =>
          /\ ~isActive'
          /\ compactMode' = Null
          /\ isCompactModeActive =>
                (userPanningEnabled' /\ userZoomingEnabled' /\ boxSelectionEnabled')
          /\ layoutAnimation' \notin RunningIds(running')
          /\ layoutAnimation # NoHandle =>
                \E i \in DOMAIN calls' : calls'[i] = <<"stop", layoutAnimation>>]_vars

\* C11 witness: deactivate() was called in compact mode with a layout running
\* and an expansion suspended: the handle was stopped by the exit and by
\* deactivate(), nothing runs, and the interactions are enabled.
C11_Witness ==
    /\ ~isActive
    /\ compactMode = Null
    /\ Len(calls) = 2
    /\ calls[1] = <<"stop", layoutAnimation>>
    /\ calls[2] = <<"stop", layoutAnimation>>
    /\ running = {}
    /\ userPanningEnabled /\ userZoomingEnabled /\ boxSelectionEnabled
    /\ pending # <<>>
    /\ Head(pending).deactivated

\* a step in which onExpansion(e) ran up to its wait
ExpansionStep(e) ==
    /\ Len(pending') = Len(pending) + 1
    /\ pending'[Len(pending')] = [kind |-> "expansion", nodes |-> e.nodes,
                                   parentNode |-> e.parentNode,
                                   deactivated |-> FALSE]

\* C12: onExpansion with at least expansionGroupLimit not yet mounted nodes and
\* groupExpansion enabled creates exactly one group, makes every not yet
\* mounted node a member of it, gives no node a position of its own and marks
\* the group mounted with the position anchor + (100, -1); otherwise it creates
\* no group and seeds every not yet mounted node on the rings and marks it
\* mounted.  The nodes of the expansion that were mounted keep their group and
\* get no position.
C12_GroupingThreshold ==
    [][\A e \in Expansions :
          ExpansionStep(e) =>
             LET notMounted == e.nodes \ mounted
                 anchor == ElementPosition(SelfOrGroup(belongsToGroup, e.parentNode))
                 count == Cardinality(notMounted)
             IN /\ IF count >= options.expansionGroupLimit /\ options.groupExpansion
                   THEN \E g \in GroupIds \ groups :
                           /\ groups' = groups \cup {g}
                           /\ Range(nodes'[g]) = notMounted
                           /\ \A n \in notMounted : belongsToGroup'[n] = g
                           /\ seeded' = <<g>>
                           /\ g \in mounted'
                           /\ onMountPosition'[1].position
                                 = <<anchor[1] + 100, anchor[2] - 1>>
                           /\ onMountPosition'[1].radius = 0
                   ELSE /\ groups' = groups
                        /\ IDCounter' = IDCounter
                        /\ Len(seeded') = count
                        /\ Range(seeded') = notMounted
                        /\ notMounted \subseteq mounted'
                        /\ \A i \in DOMAIN onMountPosition' :
                              onMountPosition'[i] = RingPlacement(count, anchor, i - 1)
                        /\ \A n \in notMounted : belongsToGroup'[n] = belongsToGroup[n]
                /\ \A n \in e.nodes \cap mounted :
                      /\ belongsToGroup'[n] = belongsToGroup[n]
                      /\ n \notin Range(seeded')
                /\ \A g \in groups : nodes'[g] = nodes[g]]_vars

\* C12 witness: the expansion of node 1 revealed nodes 2 and 3 with a limit of
\* 2: both are members of the new group, which has the position next to node 1
C12_Witness ==
    /\ pending # <<>>
    /\ seeded = <<GroupBase>>
    /\ belongsToGroup[2] = GroupBase
    /\ belongsToGroup[3] = GroupBase
    /\ GroupBase \in mounted
    /\ onMountPosition = <<GroupPlacement(ElementPosition(1))>>

\* what onDrag(isStartNotEnd) does in a step when `triggers` says whether it is
\* to start a run: a new run over the animate target, or nothing
DragOutcome(isStartNotEnd, constraintRulesLoaded, triggers) ==
    OnDrag(isStartNotEnd, constraintRulesLoaded) =>
       IF triggers
       THEN /\ LayoutStep
            /\ NewRun.collection = GetCollectionToAnimate(compactMode)
            /\ calls'[Len(calls')] = <<"run", layoutAnimation'>>
       ELSE /\ layoutAnimation' = layoutAnimation
            /\ running' = running

\* C13 as stated: onDrag starts a run over the animate target exactly when
\* (drag end and doLayoutAfterReposition) or (drag start and animate and the
\* engine has not loaded its constraints), and otherwise leaves the handle
\* untouched.
C13_DragTrigger ==
    /\ [](\A s \in BOOLEAN, l \in BOOLEAN :
             DragTriggers(s, l) <=>
                \/ ~s /\ options.doLayoutAfterReposition
                \/ s /\ options.animate /\ ~l)
    /\ [][\A s \in BOOLEAN, l \in BOOLEAN :
             DragOutcome(s, l, \/ ~s /\ options.doLayoutAfterReposition
                               \/ s /\ options.animate /\ ~l)]_vars

\* C13 amended: onDrag starts a run over the animate target exactly when
\* doLayoutAfterReposition is enabled and the event is a drag end, or a drag
\* start with animate enabled and the constraints of the engine not loaded; in
\* every other case, a drag start with doLayoutAfterReposition disabled
\* included, it starts no run and leaves the handle untouched.
C13_DragTriggerNeedsReposition ==
    /\ [](\A s \in BOOLEAN, l \in BOOLEAN :
             DragTriggers(s, l) <=>
                /\ options.doLayoutAfterReposition
                /\ ~s \/ (options.animate /\ ~l))
    /\ [][\A s \in BOOLEAN, l \in BOOLEAN :
             DragOutcome(s, l, /\ options.doLayoutAfterReposition
                               /\ ~s \/ (options.animate /\ ~l))]_vars

\* C13 witness: doLayoutAfterReposition is disabled and animate enabled, so a
\* drag start before the constraints are loaded starts no run, and none was
\* started
C13_Witness ==
    /\ ~options.doLayoutAfterReposition
    /\ options.animate
    /\ ~DragTriggers(TRUE, FALSE)
    /\ isActive
    /\ layoutAnimation = NoHandle
    /\ running = {}

\* the groups that are the counterpart of an edge of the returned list
ReturnedTargets ==
    { groupEdgeObjects[returned.edges[i]].target : i \in DOMAIN returned.edges }
       \cap GroupIds

\* C14: a group reports isVisible exactly when its stored flag is true and at
\* least one of its member nodes is visible (so not without members, not with
\* all members hidden, and with the flag and one visible member it does), and
\* a group that reports false is the target of no GroupEdge that the outgoing
\* pass of another group returns.
C14_GroupVisibility ==
    /\ \A g \in GroupIds :
          /\ GroupIsVisible(g)
                <=> (g \in visible /\ Range(nodes[g]) \cap nodeVisible # {})
          /\ nodes[g] = <<>> => ~GroupIsVisible(g)
          /\ (g \in visible /\ Cardinality(Range(nodes[g]) \cap nodeVisible) = 1)
                => GroupIsVisible(g)
    /\ returned.bucket = "out"
          => \A t \in ReturnedTargets : t # returned.group /\ GroupIsVisible(t)

\* C14 witness: node 1 of group A has a visible edge to the visible node 2 of
\* group B, B is hidden by its flag, and the outgoing pass of A returned no
\* edge to B
C14_Witness ==
    /\ returned.group = GroupBase
    /\ returned.bucket = "out"
    /\ 1 \in Range(nodes[GroupBase])
    /\ belongsToGroup[2] = GroupBase + 1
    /\ {1, 2} \subseteq nodeVisible
    /\ (GroupBase + 1) \notin visible
    /\ ~GroupIsVisible(GroupBase + 1)
    /\ (GroupBase + 1) \notin ReturnedTargets

\* the seven options of the layout
RecognizedOptions ==
    {"doLayoutAfterReposition", "expansionOnlyThose", "animate", "edgeLength",
     "nodeSpacing", "groupExpansion", "expansionGroupLimit"}

\* C15: restoreFromObject(obj) changes the recognized options present in obj
\* and no other, fields of obj that are not recognized are ignored, and the
\* options record and every result of saveToObject() have exactly the seven
\* recognized keys.
C15_RestoreIgnoresUnknown ==
    /\ [](DOMAIN options = RecognizedOptions /\ DOMAIN SaveToObject = RecognizedOptions)
    /\ [][\A o \in OptionObjects :
             RestoreFromObject(o) =>
                \A k \in RecognizedOptions :
                   options'[k] = IF k \in DOMAIN o THEN o[k] ELSE options[k]]_vars

\* the part of C15 about the recognized options alone
C15_RecognizedMerge ==
    [][\A o \in OptionObjects :
          RestoreFromObject(o) =>
             \A k \in RecognizedOptions :
                options'[k] = IF k \in DOMAIN o THEN o[k] ELSE options[k]]_vars

\* the lists visibleGroupEdges of the groups of the list, one after the other
RECURSIVE Concatenation(_)
Concatenation(list) ==
    IF list = <<>> THEN <<>>
    ELSE VisibleGroupEdges(Head(list)) \o Concatenation(Tail(list))

\* the passes of visibleGroupEdges, by group and direction, that summarize the
\* edge e in one of their GroupEdges
Reporters(e) ==
    { p \in groups \X BOOLEAN :
         e.id \in Range(Reached(p[1], nodes[p[1]], p[2], FALSE)) }

\* a visible edge between visible nodes, at least one of them in a group, that
\* does not stay inside one group, and whose groups are visible
AcrossGroups(e) ==
    /\ e.id \in edgeVisible
    /\ {e.source, e.target} \subseteq nodeVisible
    /\ belongsToGroup[e.source] # belongsToGroup[e.target]
    /\ IsVisible(SelfOrGroup(belongsToGroup, e.source))
    /\ IsVisible(SelfOrGroup(belongsToGroup, e.target))

\* C16: an edge across groups is summarized by exactly one GroupEdge of the
\* concatenation of visibleGroupEdges over all groups, the one of the outgoing
\* pass of the group of its source when the source is grouped and else the one
\* of the incoming pass of the group of its target, and no two GroupEdges of
\* the concatenation have the same identifier.
C16_NoDoubleReporting ==
    /\ \A e \in Edges :
          AcrossGroups(e) =>
             Reporters(e) = IF belongsToGroup[e.source] # NoGroup
                            THEN {<<belongsToGroup[e.source], TRUE>>}
                            ELSE {<<belongsToGroup[e.target], FALSE>>}
    /\ LET all == Concatenation(SetToList(groups))
       IN \A i \in DOMAIN all, j \in DOMAIN all :
             ObjectIdentifier(all[i]) = ObjectIdentifier(all[j]) => i = j

\* every list of members holds exactly the nodes that refer to its group, once
ConsistentMembership ==
    \A g \in GroupIds :
       /\ Range(nodes[g]) = { n \in Nodes : belongsToGroup[n] = g }
       /\ Len(nodes[g]) = Cardinality(Range(nodes[g]))

\* C16 where no addNode with override has left a node in the list of its
\* former group
C16_ConsistentMembership == ConsistentMembership => C16_NoDoubleReporting

\* nodes 1 and 2 are in groups A and B, and the edge from 1 to 2 is summarized
\* by the outgoing pass of A alone
C16_ConsistentWitness ==
    /\ ConsistentMembership
    /\ belongsToGroup[1] = GroupBase
    /\ belongsToGroup[2] = GroupBase + 1
    /\ AcrossGroups(EdgeOf(EdgeBase + 3))
    /\ Reporters(EdgeOf(EdgeBase + 3)) = {<<GroupBase, TRUE>>}

\* C17: every layout run that is started while compact mode is active, the
\* run of the compact-mode entry included, has as its collection exactly the
\* tracked compact collection.
C17_CompactRuns ==
    [][(LayoutStep /\ IsCompactModeActiveOf(compactMode'))
          => NewRun.collection = compactMode'.elems]_vars

\* C17 for the handlers that take getCollectionToAnimate(): run, lock toggle,
\* drag and compact-mode entry
C17_CompactRunsOfAnimateTarget ==
    [][(LayoutStep /\ IsCompactModeActiveOf(compactMode') /\ ~ResumeStep)
          => NewRun.collection = compactMode'.elems]_vars

\* C18: a layout handle is running or compact mode is active only while the
\* orchestrator is active.
C18_ReactionsOnlyWhileActive ==
    (running # {} \/ IsCompactModeActiveOf(compactMode)) => isActive

\* the steps that start a run or turn compact mode on and leave the
\* orchestrator inactive are calls of handlers on the inactive orchestrator:
\* the resumption of a suspended handler and deactivate are not among them
C18_OnlyCallsWhileInactive ==
    [][(/\ ~isActive'
        /\ \/ LayoutStep
           \/ ~IsCompactModeActiveOf(compactMode) /\ IsCompactModeActiveOf(compactMode'))
          => (~isActive /\ ~ResumeStep)]_vars

\* a step of getGroupEdgesInDirection: no other step leaves a returned list
PassStep == returned'.group # NoGroup

\* C19: after a pass of a group in a direction, the bucket of that direction
\* has exactly one entry for each returned GroupEdge, under its identifier and
\* holding the returned object, and every other bucket is what it was before
\* the pass.
C19_CacheReplacement ==
    [][PassStep =>
          LET g == returned'.group
              bucket == returned'.bucket
              edges == returned'.edges
              cache == groupEdgesCache'[g][bucket]
          IN /\ DOMAIN cache = { ObjectIdentifier(groupEdgeObjects'[edges[i]]) :
                                    i \in DOMAIN edges }
             /\ \A i \in DOMAIN edges :
                   cache[ObjectIdentifier(groupEdgeObjects'[edges[i]])] = edges[i]
             /\ Cardinality(DOMAIN cache) = Len(edges)
             /\ \A h \in GroupIds, b \in Buckets :
                   (h # g \/ b # bucket)
                      => groupEdgesCache'[h][b] = groupEdgesCache[h][b]]_vars

\* C19 witness: the outgoing pass of A returned the one object it had cached,
\* and the entry of the incoming bucket of A is still there
C19_Witness ==
    /\ returned.group = GroupBase
    /\ returned.bucket = "out"
    /\ Len(returned.edges) = 1
    /\ returned.fromCache = {1}
    /\ DOMAIN groupEdgesCache[GroupBase]["out"]
          = {ObjectIdentifier(groupEdgeObjects[returned.edges[1]])}
    /\ groupEdgesCache[GroupBase]["in"] # <<>>

\* the GroupEdge o has the group g as one endpoint and g or one of its member
\* nodes as the other
InsideGroup(g, o) ==
    LET inside == {g} \cup Range(nodes[g])
                      \cup { n \in Nodes : belongsToGroup[n] = g }
    IN \/ o.source = g /\ o.target \in inside
       \/ o.target = g /\ o.source \in inside

\* C20: no GroupEdge returned by a pass of a group, in any of the three
\* directions, has both endpoints inside the group.
C20_NoIntraGroupEdges ==
    \A i \in DOMAIN returned.edges :
       ~InsideGroup(returned.group, groupEdgeObjects[returned.edges[i]])

\* C20 for the two passes of visibleGroupEdges
C20_VisibleGroupEdgesOnly ==
    returned.bucket \in {"out", "in"} => C20_NoIntraGroupEdges

====
